---- MODULE Spec2Model ----
(***************************************************************************)
(* A model of the MongoDB import tool of src/PyMongo/pymongo.py:           *)
(*   - MongoDBManager: create_connection, validate_csv_data, insert_data,  *)
(*     close_connection;                                                   *)
(*   - ModernGUI: load_and_validate_csv, connect_to_mongodb,               *)
(*     import_to_mongodb and the worker threads they start.                *)
(* and of the DataCollector of src/Generate-Data/add_data.py.               *)
(*                                                                         *)
(* A dataset (pandas DataFrame) is modelled by its shape: the number of    *)
(* rows and the sequence of its column labels.  A column label is either a *)
(* str, modelled as a sequence of characters, or no str (pandas allows     *)
(* integer labels).                                                        *)
(*                                                                         *)
(* The destination (the driver's Collection.insert_many, ordered=False)    *)
(* is the environment.  Each bulk insert ends in one of three ways, which  *)
(* are the three handlers of insert_data:                                  *)
(*   - it returns: every row of the batch was written;                     *)
(*   - it raises BulkWriteError: a non-empty set of rows of the batch was  *)
(*     rejected, details['writeErrors'] holds one entry per rejected row   *)
(*     with its index in the batch, in ascending order, and                *)
(*     details['insertedIds'] holds the other rows of the batch, as        *)
(*     insert_data reads them;                                             *)
(*   - it raises any other exception: nothing is known per row.            *)
(***************************************************************************)
EXTENDS Integers, Sequences, FiniteSets, TLC

(***************************************************************************)
(* Bounds of the model.                                                    *)
(***************************************************************************)
MaxRows == 5
MaxBatch == 3
MaxConns == 2
MaxThreads == 2

\* batch sizes a direct caller may pass: negative, zero and positive ones
BatchSizes == (0 - 1) .. MaxBatch
RowCounts == 0 .. MaxRows
Threads == 1 .. MaxThreads
ConnThreads == 1 .. MaxConns

\* str(e) of the exceptions the destination raises
ErrMsgs == {"duplicate key"}
Failures == {"connection lost"}

VARIABLES
    client,             \* MongoDBManager.client: 0 is None, c > 0 the client made by call c
    db,                 \* MongoDBManager.db: 0 is None, else the client it belongs to
    collection,         \* MongoDBManager.collection: 0 is None, else the client it belongs to
    connection_status,  \* MongoDBManager.connection_status
    closed,             \* the clients on which close() was called
    cpc,                \* position of each create_connection call
    cret,               \* return value of each create_connection call
    pc,                 \* position of each insert_data invocation
    frame,              \* local variables of each insert_data invocation
    result,             \* what each insert_data invocation returned
    calls,              \* the bulk inserts submitted to the destination, in order
    csv_data,           \* ModernGUI.csv_data, or the DataFrame a direct caller holds
    validation,         \* the ValidationReport last returned for csv_data
    running,            \* the GUI's mainloop is running
    progress_var,       \* ModernGUI.progress_var, the value of the progress bar
    data_type,          \* DataCollector.data_type
    data_list,          \* DataCollector.data_list
    metadata,           \* DataCollector.metadata
    entry_count,        \* the local entry_count of get_user_data
    collecting,         \* get_user_data is in its loop
    collects,           \* the number of get_user_data calls made
    printed             \* what get_user_data printed last

mgrVars == <<client, db, collection, connection_status, closed>>
connVars == <<cpc, cret>>
loadVars == <<pc, frame, result, calls>>
guiVars == <<csv_data, validation, running, progress_var>>
collectorVars == <<data_type, data_list, metadata, entry_count, collecting, collects, printed>>
vars == <<client, db, collection, connection_status, closed, cpc, cret,
          pc, frame, result, calls, csv_data, validation, running, progress_var,
          data_type, data_list, metadata, entry_count, collecting, collects, printed>>

(***************************************************************************)
(* Helpers.                                                                *)
(***************************************************************************)
Min(a, b) == IF a < b THEN a ELSE b

MinOf(S) == CHOOSE x \in S : \A y \in S : x <= y

RECURSIVE Ascending(_)
Ascending(S) == IF S = {} THEN <<>> ELSE <<MinOf(S)>> \o Ascending(S \ {MinOf(S)})

\* Python's a // b for b > 0
FloorDiv(a, b) == a \div b

(***************************************************************************)
(* MongoDBManager.__init__                                                 *)
(***************************************************************************)
NoResult == [pending |-> TRUE]

NoFrame == [total_records |-> 0, batch_size |-> 0, i |-> 0,
            inserted_count |-> 0, error_count |-> 0, errors |-> <<>>]

\* add_data.py lines 16-23: DataCollector.__init__
DataCollectorInit(type) ==
    /\ data_type = type
    /\ data_list = <<>>
    /\ metadata = [data_type |-> type, total_entries |-> 0]
    /\ entry_count = 0
    /\ collecting = FALSE
    /\ collects = 0
    /\ printed = "nothing"

ManagerInit ==
    /\ client = 0
    /\ db = 0
    /\ collection = 0
    /\ connection_status = FALSE
    /\ closed = {}

ThreadsInit ==
    /\ cpc = [c \in ConnThreads |-> "idle"]
    /\ cret = [c \in ConnThreads |-> FALSE]
    /\ pc = [t \in Threads |-> "idle"]
    /\ frame = [t \in Threads |-> NoFrame]
    /\ result = [t \in Threads |-> NoResult]
    /\ calls = <<>>

(***************************************************************************)
(* MongoDBManager.create_connection, one call per connect thread c.  The   *)
(* client made by call c is named c.  Every statement of the try block may *)
(* raise; the handler sets connection_status to False.                     *)
(***************************************************************************)
\* lines 83-86
ConnFail(c) ==
    /\ connection_status' = FALSE
    /\ cret' = [cret EXCEPT ![c] = FALSE]
    /\ cpc' = [cpc EXCEPT ![c] = "failed"]

\* line 68: test_connection fails and create_connection returns False at once
ConnTestFailed(c) ==
    /\ cpc[c] = "test"
    /\ cret' = [cret EXCEPT ![c] = FALSE]
    /\ cpc' = [cpc EXCEPT ![c] = "unreachable"]
    /\ UNCHANGED <<mgrVars, loadVars, guiVars, collectorVars>>

ConnTestOk(c) ==
    /\ cpc[c] = "test"
    /\ cpc' = [cpc EXCEPT ![c] = "client"]
    /\ UNCHANGED <<mgrVars, cret, loadVars, guiVars, collectorVars>>

\* line 72: self.client = MongoClient(connection_string)
ConnClient(c) ==
    /\ cpc[c] = "client"
    /\ \/ /\ client' = c
          /\ cpc' = [cpc EXCEPT ![c] = "db"]
          /\ UNCHANGED <<connection_status, cret>>
       \/ /\ ConnFail(c)
          /\ UNCHANGED client
    /\ UNCHANGED <<db, collection, closed, loadVars, guiVars, collectorVars>>

\* line 73: self.db = self.client[db_name]
ConnDb(c) ==
    /\ cpc[c] = "db"
    /\ \/ /\ db' = client
          /\ cpc' = [cpc EXCEPT ![c] = "coll"]
          /\ UNCHANGED <<connection_status, cret>>
       \/ /\ ConnFail(c)
          /\ UNCHANGED db
    /\ UNCHANGED <<client, collection, closed, loadVars, guiVars, collectorVars>>

\* line 74: self.collection = self.db[collection_name]
ConnColl(c) ==
    /\ cpc[c] = "coll"
    /\ \/ /\ collection' = db
          /\ cpc' = [cpc EXCEPT ![c] = "list"]
          /\ UNCHANGED <<connection_status, cret>>
       \/ /\ ConnFail(c)
          /\ UNCHANGED collection
    /\ UNCHANGED <<client, db, closed, loadVars, guiVars, collectorVars>>

\* lines 77-81: self.db.list_collection_names(); self.connection_status = True
ConnList(c) ==
    /\ cpc[c] = "list"
    /\ \/ /\ connection_status' = TRUE
          /\ cret' = [cret EXCEPT ![c] = TRUE]
          /\ cpc' = [cpc EXCEPT ![c] = "connected"]
       \/ ConnFail(c)
    /\ UNCHANGED <<client, db, collection, closed, loadVars, guiVars, collectorVars>>

create_connection(c) ==
    \/ ConnTestFailed(c)
    \/ ConnTestOk(c)
    \/ ConnClient(c)
    \/ ConnDb(c)
    \/ ConnColl(c)
    \/ ConnList(c)

(***************************************************************************)
(* MongoDBManager.close_connection                                         *)
(***************************************************************************)
\* a close that leaves connection_status as it was
CloseKeepsStatus ==
    /\ IF client # 0
          THEN closed' = closed \cup {client}
          ELSE UNCHANGED closed
    /\ UNCHANGED <<client, db, collection, connection_status>>

close_connection ==
    /\ IF client # 0
          THEN /\ closed' = closed \cup {client}
               /\ connection_status' = FALSE
          ELSE UNCHANGED <<closed, connection_status>>
    /\ UNCHANGED <<client, db, collection>>

(***************************************************************************)
(* MongoDBManager.insert_data, one invocation per thread t.                *)
(***************************************************************************)
\* an off-by-one of the loop's end: the stop itself is still yielded
InRangeInclusive(i, stop, step) == IF step > 0 THEN i <= stop ELSE i >= stop

\* Python's range(0, stop, step) still yields i (step # 0)
InRange(i, stop, step) == IF step > 0 THEN i < stop ELSE i > stop

\* a batch that is never cut short at the end of the dataset
BatchLenUnclipped(f) == f.batch_size

\* len(data[i:i + batch_size]) for 0 <= i < total_records and batch_size > 0
BatchLen(f) == Min(f.i + f.batch_size, f.total_records) - f.i

\* a batch number that starts at 0
BatchNumberFromZero(f) == FloorDiv(f.i, f.batch_size)

\* i//batch_size + 1
BatchNumber(f) == FloorDiv(f.i, f.batch_size) + 1

\* f"Row {error['index']}: {error['errmsg']}"
RowError(index, errmsg) == <<"Row", index, errmsg>>

\* f"Batch {i//batch_size + 1}: {str(e)}"
BatchError(number, description) == <<"Batch", number, description>>

\* the entries appended for e.details['writeErrors'], which holds the rejected
\* rows by their index in the batch, ascending
RECURSIVE RowErrors(_, _)
RowErrors(writeErrors, errmsg) ==
    IF writeErrors = <<>> THEN <<>>
    ELSE <<RowError(Head(writeErrors), errmsg)>> \o RowErrors(Tail(writeErrors), errmsg)

\* a returned batch counted as batch_size rows, whatever the ids it returned
AllOkCountsBatchSize(f) ==
    [f EXCEPT !.inserted_count = @ + f.batch_size]

\* lines 147-149: insert_many returned, result.inserted_ids has one id per row
AllOk(f) ==
    [f EXCEPT !.inserted_count = @ + BatchLen(f)]

\* a partial failure handled as a failure of the whole batch
PartialFailureCountsWholeBatch(f, rejected, errmsg) ==
    [f EXCEPT !.error_count = @ + BatchLen(f),
              !.errors = @ \o RowErrors(Ascending(rejected), errmsg)]

\* a partial failure whose entries are put in front of the earlier ones
PartialFailurePrepends(f, rejected, errmsg) ==
    [f EXCEPT !.inserted_count = @ + (BatchLen(f) - Cardinality(rejected)),
              !.error_count = @ + Cardinality(rejected),
              !.errors = RowErrors(Ascending(rejected), errmsg) \o @]

\* lines 151-159: BulkWriteError, rejected is the set of in-batch indexes
PartialFailure(f, rejected, errmsg) ==
    [f EXCEPT !.inserted_count = @ + (BatchLen(f) - Cardinality(rejected)),
              !.error_count = @ + Cardinality(rejected),
              !.errors = @ \o RowErrors(Ascending(rejected), errmsg)]

\* a total failure that counts batch_size rows, whatever the batch's length
TotalFailureCountsBatchSize(f, description) ==
    [f EXCEPT !.error_count = @ + f.batch_size,
              !.errors = Append(@, BatchError(BatchNumber(f), description))]

\* a total failure that ends the loop
TotalFailureAborts(f, description) ==
    [f EXCEPT !.error_count = @ + BatchLen(f),
              !.errors = Append(@, BatchError(BatchNumber(f), description)),
              !.i = f.total_records]

\* a total failure after which the same batch is submitted again
TotalFailureRetries(f, description) ==
    [f EXCEPT !.errors = Append(@, BatchError(BatchNumber(f), description)),
              !.i = @ - f.batch_size]

\* lines 161-164: any other exception
TotalFailure(f, description) ==
    [f EXCEPT !.error_count = @ + BatchLen(f),
              !.errors = Append(@, BatchError(BatchNumber(f), description))]

\* the inserted_count of the invocations of threads 1 .. u together
RECURSIVE InsertedUpTo(_)
InsertedUpTo(u) == IF u = 0 THEN 0 ELSE InsertedUpTo(u - 1) + frame[u].inserted_count

\* a report whose inserted_count is a counter the invocations share
ReportSharedCounter(f) ==
    [success |-> TRUE,
     total_records |-> f.total_records,
     inserted_count |-> InsertedUpTo(MaxThreads),
     error_count |-> f.error_count,
     errors |-> f.errors]

\* lines 166-172
Report(f) ==
    [success |-> TRUE,
     total_records |-> f.total_records,
     inserted_count |-> f.inserted_count,
     error_count |-> f.error_count,
     errors |-> f.errors]

\* line 130
NotConnected == [success |-> FALSE, error |-> "Not connected to MongoDB"]

\* lines 177-179, for the ValueError of range(0, total_records, 0)
RangeError == [success |-> FALSE, error |-> "range() arg 3 must not be zero"]

\* the rows of a batch of len rows the destination may reject: any row of a
\* small batch, the first and the last row of a large one
Rejectable(len) == IF len <= MaxBatch THEN 0 .. len - 1 ELSE {0, len - 1}

\* the bulk insert as the destination saw it
Call(t, f, outcome, rejected, message) ==
    [thread |-> t, collection |-> collection, offset |-> f.i, len |-> BatchLen(f),
     outcome |-> outcome, rejected |-> rejected, message |-> message]

\* lines 129-143: the connection check, the locals, the range of the loop
InsertDataEnter(t, rows, batch_size) ==
    /\ IF ~connection_status
          THEN /\ result' = [result EXCEPT ![t] = NotConnected]
               /\ pc' = [pc EXCEPT ![t] = "done"]
               /\ UNCHANGED frame
          ELSE /\ frame' = [frame EXCEPT ![t] =
                     [total_records |-> rows, batch_size |-> batch_size, i |-> 0,
                      inserted_count |-> 0, error_count |-> 0, errors |-> <<>>]]
               /\ IF batch_size = 0
                     THEN /\ result' = [result EXCEPT ![t] = RangeError]
                          /\ pc' = [pc EXCEPT ![t] = "done"]
                     ELSE /\ pc' = [pc EXCEPT ![t] = "loop"]
                          /\ UNCHANGED result
    /\ UNCHANGED <<mgrVars, connVars, calls, guiVars, collectorVars>>

\* lines 143-164: one iteration of the loop
InsertBatch(t) ==
    /\ pc[t] = "loop"
    /\ InRange(frame[t].i, frame[t].total_records, frame[t].batch_size)
    /\ LET f == frame[t]
           next(g) == [g EXCEPT !.i = @ + f.batch_size]
       IN  \/ /\ collection # 0
              /\ frame' = [frame EXCEPT ![t] = next(AllOk(f))]
              /\ calls' = Append(calls, Call(t, f, "ok", {}, ""))
           \/ /\ collection # 0
              /\ \E rejected \in SUBSET Rejectable(BatchLen(f)), errmsg \in ErrMsgs :
                    /\ rejected # {}
                    /\ frame' = [frame EXCEPT ![t] = next(PartialFailure(f, rejected, errmsg))]
                    /\ calls' = Append(calls, Call(t, f, "partial", rejected, errmsg))
           \/ \E description \in Failures :
                 /\ frame' = [frame EXCEPT ![t] = next(TotalFailure(f, description))]
                 /\ calls' = Append(calls, Call(t, f, "total", {}, description))
    /\ UNCHANGED <<mgrVars, connVars, pc, result, guiVars, collectorVars>>

\* a return that marks the manager disconnected once the import is over
InsertDataReturnDisconnects(t) ==
    /\ pc[t] = "loop"
    /\ ~InRange(frame[t].i, frame[t].total_records, frame[t].batch_size)
    /\ result' = [result EXCEPT ![t] = Report(frame[t])]
    /\ pc' = [pc EXCEPT ![t] = "done"]
    /\ connection_status' = FALSE
    /\ UNCHANGED <<client, db, collection, closed, connVars, frame, calls, guiVars, collectorVars>>

\* lines 166-175: the loop is over
InsertDataReturn(t) ==
    /\ pc[t] = "loop"
    /\ ~InRange(frame[t].i, frame[t].total_records, frame[t].batch_size)
    /\ result' = [result EXCEPT ![t] = Report(frame[t])]
    /\ pc' = [pc EXCEPT ![t] = "done"]
    /\ UNCHANGED <<mgrVars, connVars, frame, calls, guiVars, collectorVars>>

insert_data(t) ==
    \/ InsertBatch(t)
    \/ InsertDataReturn(t)

(***************************************************************************)
(* Datasets.  Chars is the alphabet of column names: the two characters    *)
(* validate_csv_data looks for and one other.                              *)
(***************************************************************************)
MaxNameLen == 2
MaxCols == 2
DefaultBatchSize == 1000
LargeColumns == 100
LargeRows == 100000

Chars == {"$", ".", "a"}

\* a str column label
Str(chars) == [type |-> "str", chars |-> chars]

\* a column label that is no str: the int 0
Int0 == [type |-> "int", chars |-> <<>>]

StrNames == {Str(chars) : chars \in UNION {[1 .. n -> Chars] : n \in 0 .. MaxNameLen}}

IsStr(col) == col.type = "str"

Names == StrNames \cup {Int0}

\* a frame of k columns, the first named first and the others "a"
Wide(k, first) == [j \in 1 .. k |-> IF j = 1 THEN first ELSE Str(<<"a">>)]

ColumnLists ==
    UNION {[1 .. n -> Names] : n \in 0 .. MaxCols}
    \cup {Wide(k, first) : k \in {LargeColumns, LargeColumns + 1}, first \in Names}

DataFrames ==
    [rows : {0, 1, 2, LargeRows, LargeRows + 1}, columns : ColumnLists]

\* what pd.read_csv returns: the labels are str and there is at least one
\* column; no row, one batch or two batches of the default size
CsvFrames ==
    [rows : {0, 1, DefaultBatchSize + 1}, columns : {<<Str(<<"a">>), Str(<<"a", ".">>)>>}]

\* the rows of the dataset of two and a half default batches
ScenarioRows == 2 * DefaultBatchSize + DefaultBatchSize \div 2

\* the frames a direct caller of insert_data passes
SmallFrames == [rows : RowCounts \cup {ScenarioRows}, columns : {<<Str(<<"a">>)>>}]

\* the batch size a direct caller passes with a frame of rows rows: any small
\* one with a small frame, the default with the large frame
BatchSizesFor(rows) == IF rows \in RowCounts THEN BatchSizes ELSE {DefaultBatchSize}

None == [none |-> TRUE]

NotRun == [notrun |-> TRUE]

(***************************************************************************)
(* MongoDBManager.validate_csv_data                                        *)
(***************************************************************************)
\* col.startswith('$')
StartsWithDollar(col) == Len(col.chars) > 0 /\ col.chars[1] = "$"

\* '.' in col
ContainsDot(col) == \E j \in 1 .. Len(col.chars) : col.chars[j] = "."

\* an emptiness test that looks at the rows only
EmptyRowsOnly(df) == df.rows = 0

\* df.empty: any axis of the frame has length 0
Empty(df) == df.rows = 0 \/ Len(df.columns) = 0

\* line 119, for a str label
Incompatible(col) == StartsWithDollar(col) \/ ContainsDot(col)

\* a loop over the labels that stops at the first incompatible one
InvalidColumnsFirstOnly(columns) ==
    IF SelectSeq(columns, Incompatible) = <<>> THEN <<>>
    ELSE <<Head(SelectSeq(columns, Incompatible))>>

\* lines 117-120, for str labels
InvalidColumns(columns) == SelectSeq(columns, Incompatible)

\* stats that count the cells (df.size) where the code counts the rows (len(df))
StatsCountsCells(df) ==
    [total_rows |-> df.rows * Len(df.columns), total_columns |-> Len(df.columns)]

\* lines 90-100; missing_values and duplicate_rows depend on the cells and are
\* left out of the model
Stats(df) == [total_rows |-> df.rows, total_columns |-> Len(df.columns)]

\* the rules as an if / elif chain: only the first rule that holds warns
WarningsFirstOnly(df) ==
    IF Len(df.columns) > LargeColumns
       THEN <<<<"Large number of columns detected (>100)">>>>
    ELSE IF df.rows > LargeRows
       THEN <<<<"Large dataset detected (>100k rows)">>>>
    ELSE IF InvalidColumns(df.columns) # <<>>
       THEN <<<<"Columns with MongoDB-incompatible names", InvalidColumns(df.columns)>>>>
    ELSE <<>>

\* lines 108-123
Warnings(df) ==
    (IF Len(df.columns) > LargeColumns
        THEN <<<<"Large number of columns detected (>100)">>>> ELSE <<>>)
    \o (IF df.rows > LargeRows
        THEN <<<<"Large dataset detected (>100k rows)">>>> ELSE <<>>)
    \o (IF InvalidColumns(df.columns) # <<>>
        THEN <<<<"Columns with MongoDB-incompatible names", InvalidColumns(df.columns)>>>>
        ELSE <<>>)

Raised(exception) == [raised |-> TRUE, exception |-> exception]

validate_csv_data(df) ==
    IF Empty(df)
       THEN [raised |-> FALSE, valid |-> FALSE, errors |-> <<"CSV file is empty">>,
             warnings |-> <<>>, stats |-> Stats(df)]
    \* line 119: a label that is no str has no startswith
    ELSE IF \E j \in 1 .. Len(df.columns) : ~IsStr(df.columns[j])
       THEN Raised("AttributeError")
    ELSE [raised |-> FALSE, valid |-> TRUE, errors |-> <<>>,
          warnings |-> Warnings(df), stats |-> Stats(df)]

(***************************************************************************)
(* ModernGUI: the handlers of the buttons and the threads they start.      *)
(* A handler's early return after a message box changes nothing and is     *)
(* the handler's guard here.                                               *)
(***************************************************************************)
\* threads are started one after the other
FirstIdle(position, th) == position[th] = "idle" /\ \A u \in 1 .. th - 1 : position[u] # "idle"

\* lines 440-458; a read_csv that raises leaves csv_data as it was
load_and_validate_csv(df) ==
    /\ running
    /\ csv_data' = df
    /\ validation' = IF validate_csv_data(df).raised THEN validation
                     ELSE validate_csv_data(df)
    /\ UNCHANGED <<mgrVars, connVars, loadVars, running, progress_var, collectorVars>>

\* lines 537-571: starts connect_thread
connect_to_mongodb(c) ==
    /\ running
    /\ FirstIdle(cpc, c)
    /\ cpc' = [cpc EXCEPT ![c] = "test"]
    /\ UNCHANGED <<mgrVars, cret, loadVars, guiVars, collectorVars>>

\* lines 573-593 and 620: the checks, the confirmation, the thread is started
import_to_mongodb(t) ==
    /\ running
    /\ connection_status
    /\ csv_data # None
    /\ FirstIdle(pc, t)
    /\ progress_var' = 0
    /\ pc' = [pc EXCEPT ![t] = "start"]
    /\ UNCHANGED <<mgrVars, connVars, frame, result, calls, csv_data, validation, running, collectorVars>>

\* line 596: result = self.mongodb_manager.insert_data(self.csv_data)
import_thread(t) ==
    /\ pc[t] = "start"
    /\ InsertDataEnter(t, csv_data.rows, DefaultBatchSize)

\* a thread that hands update_ui to the mainloop after a success only
import_thread_after_success(t) ==
    /\ pc[t] = "done"
    /\ pc' = [pc EXCEPT ![t] = IF running /\ result[t].success THEN "queued" ELSE "raised"]
    /\ UNCHANGED <<mgrVars, connVars, frame, result, calls, guiVars, collectorVars>>

\* line 618: self.root.after(0, update_ui), once insert_data has returned.
\* Once the mainloop has ended the call raises (the application has been
\* destroyed, or the main thread is not in the main loop) and the exception
\* ends the thread.
import_thread_after(t) ==
    /\ pc[t] = "done"
    /\ pc' = [pc EXCEPT ![t] = IF running THEN "queued" ELSE "raised"]
    /\ UNCHANGED <<mgrVars, connVars, frame, result, calls, guiVars, collectorVars>>

\* lines 598-616: the mainloop runs the update_ui of import thread t
update_ui(t) ==
    /\ running
    /\ pc[t] = "queued"
    /\ pc' = [pc EXCEPT ![t] = "shown"]
    /\ progress_var' = IF result[t].success THEN 100 ELSE progress_var
    /\ UNCHANGED <<mgrVars, connVars, frame, result, calls, csv_data, validation, running, collectorVars>>

\* lines 650-657: the mainloop ends and run() closes the connection
run_finally ==
    /\ running
    /\ running' = FALSE
    /\ close_connection
    /\ UNCHANGED <<connVars, loadVars, csv_data, validation, progress_var, collectorVars>>

Init ==
    /\ ManagerInit
    /\ ThreadsInit
    /\ csv_data = None
    /\ validation = NotRun
    /\ running = TRUE
    /\ progress_var = 0
    /\ DataCollectorInit("general")

Next ==
    \/ \E df \in CsvFrames : load_and_validate_csv(df)
    \/ \E c \in ConnThreads : connect_to_mongodb(c)
    \/ \E c \in ConnThreads : create_connection(c)
    \/ \E t \in Threads : import_to_mongodb(t)
    \/ \E t \in Threads : import_thread(t)
    \/ \E t \in Threads : insert_data(t)
    \/ \E t \in Threads : import_thread_after(t)
    \/ \E t \in Threads : update_ui(t)
    \/ run_finally

Spec == Init /\ [][Next]_vars

(***************************************************************************)
(* The GUI with a single Connect click: what the import threads do on one  *)
(* connection.                                                             *)
(***************************************************************************)
NextImports ==
    \/ \E df \in CsvFrames : load_and_validate_csv(df)
    \/ connect_to_mongodb(1)
    \/ create_connection(1)
    \/ \E t \in Threads : import_to_mongodb(t)
    \/ \E t \in Threads : import_thread(t)
    \/ \E t \in Threads : insert_data(t)
    \/ \E t \in Threads : import_thread_after(t)
    \/ \E t \in Threads : update_ui(t)
    \/ run_finally

SpecImports == Init /\ [][NextImports]_vars

(***************************************************************************)
(* The GUI with repeated Connect clicks and a single import: what the      *)
(* connect threads do to one another and to an import.                     *)
(***************************************************************************)
NextConnects ==
    \/ \E df \in CsvFrames : load_and_validate_csv(df)
    \/ \E c \in ConnThreads : connect_to_mongodb(c)
    \/ \E c \in ConnThreads : create_connection(c)
    \/ import_to_mongodb(1)
    \/ import_thread(1)
    \/ insert_data(1)
    \/ import_thread_after(1)
    \/ update_ui(1)
    \/ run_finally

SpecConnects == Init /\ [][NextConnects]_vars

\* The threads that were started keep running and every bulk insert returns
\* or raises; while the mainloop runs it handles the callbacks it was given.
\* Nothing makes the user click, nor close the window.
ImportsFairness ==
    \A t \in Threads :
        /\ WF_vars(import_thread(t))
        /\ WF_vars(insert_data(t))
        /\ WF_vars(import_thread_after(t))
        /\ WF_vars(update_ui(t))

SpecConnectsFair == SpecConnects /\ ImportsFairness

(***************************************************************************)
(* A single-threaded caller of MongoDBManager: it connects, closes and     *)
(* calls insert_data once, with any frame and any batch size, one call     *)
(* after the other.                                                        *)
(***************************************************************************)
Busy ==
    \/ \E c \in ConnThreads : cpc[c] \in {"test", "client", "db", "coll", "list"}
    \/ \E t \in Threads : pc[t] \in {"start", "loop"}

CallCreateConnection(c) ==
    /\ ~Busy
    /\ FirstIdle(cpc, c)
    /\ cpc' = [cpc EXCEPT ![c] = "test"]
    /\ UNCHANGED <<mgrVars, cret, loadVars, guiVars, collectorVars>>

CallCloseConnection ==
    /\ ~Busy
    /\ close_connection
    /\ UNCHANGED <<connVars, loadVars, guiVars, collectorVars>>

CallInsertData(t, batch_size) ==
    /\ ~Busy
    /\ pc[t] = "idle"
    /\ InsertDataEnter(t, csv_data.rows, batch_size)

InitLoad ==
    /\ ManagerInit
    /\ ThreadsInit
    /\ csv_data \in SmallFrames
    /\ validation = NotRun
    /\ running = TRUE
    /\ progress_var = 0
    /\ DataCollectorInit("general")

NextLoad ==
    \/ \E c \in ConnThreads : CallCreateConnection(c)
    \/ \E c \in ConnThreads : create_connection(c)
    \/ CallCloseConnection
    \/ \E batch_size \in BatchSizesFor(csv_data.rows) : CallInsertData(1, batch_size)
    \/ insert_data(1)

SpecLoad == InitLoad /\ [][NextLoad]_vars

(***************************************************************************)
(* A caller of validate_csv_data with any frame.                           *)
(***************************************************************************)
\* a validator that drops the columns it warns about from the caller's frame
CallValidateDropsColumns ==
    /\ validation = NotRun
    /\ validation' = validate_csv_data(csv_data)
    /\ csv_data' = [csv_data EXCEPT !.columns = SelectSeq(@, LAMBDA col : ~IsStr(col) \/ ~Incompatible(col))]
    /\ UNCHANGED <<mgrVars, connVars, loadVars, running, progress_var, collectorVars>>

CallValidate ==
    /\ validation = NotRun
    /\ validation' = validate_csv_data(csv_data)
    /\ UNCHANGED <<mgrVars, connVars, loadVars, csv_data, running, progress_var, collectorVars>>

InitValidate ==
    /\ ManagerInit
    /\ ThreadsInit
    /\ csv_data \in DataFrames
    /\ validation = NotRun
    /\ running = TRUE
    /\ progress_var = 0
    /\ DataCollectorInit("general")

NextValidate == CallValidate

SpecValidate == InitValidate /\ [][NextValidate]_vars

(***************************************************************************)
(* DataCollector of src/Generate-Data/add_data.py.  A line typed by the    *)
(* user is a sequence of characters.  An entry is modelled by its id, its  *)
(* value and its data_type; its timestamp is left out.                     *)
(***************************************************************************)
MaxEntries == 3
MaxCollects == 2

\* the data types of the collectors; "numeric" is left out
DataTypes == {"general", "email"}

\* the lines the user types
Typed ==
    {<<"d", "o", "n", "e">>, <<"D", "o", "n", "e">>, <<"h", "e", "l", "p">>,
     <<"l", "i", "s", "t">>, <<>>, <<" ">>, <<"a">>, <<" ", "a", " ">>,
     <<"a", "@", "b">>, <<"a", "@", "b", ".", "c">>}

\* what input() raises instead of returning a line
Interrupts == {"KeyboardInterrupt", "EOFError"}

\* str.lower(), on the characters of Typed
Lower(str) == [j \in DOMAIN str |-> IF str[j] = "D" THEN "d" ELSE str[j]]

\* str.strip(), for the blank " "
RECURSIVE LStrip(_)
LStrip(str) == IF str # <<>> /\ Head(str) = " " THEN LStrip(Tail(str)) ELSE str

RECURSIVE RStrip(_)
RStrip(str) ==
    IF str # <<>> /\ str[Len(str)] = " " THEN RStrip(SubSeq(str, 1, Len(str) - 1)) ELSE str

Strip(str) == RStrip(LStrip(str))

\* ch in str
In(ch, str) == \E j \in DOMAIN str : str[j] = ch

\* add_data.py lines 25-40
validate_input(user_input) ==
    IF user_input = <<>> \/ Strip(user_input) = <<>> THEN FALSE
    ELSE IF data_type = "email" THEN In("@", user_input) /\ In(".", user_input)
    ELSE TRUE

\* add_data.py lines 63-68
Entry(user_input) == [id |-> entry_count + 1, value |-> user_input, data_type |-> data_type]

\* add_data.py lines 42-47: the call, up to the loop
GetUserDataEnter ==
    /\ ~collecting
    /\ collects < MaxCollects
    /\ collects' = collects + 1
    /\ collecting' = TRUE
    /\ entry_count' = 0
    /\ printed' = "Enter data"
    /\ UNCHANGED <<data_type, data_list, metadata>>
    /\ UNCHANGED <<mgrVars, connVars, loadVars, guiVars>>

\* add_data.py lines 82-83: the code after the loop
GetUserDataReturn ==
    /\ metadata' = [metadata EXCEPT !.total_entries = entry_count]
    /\ collecting' = FALSE
    /\ UNCHANGED <<data_type, data_list, entry_count, collects>>

\* add_data.py lines 49-73: one iteration of the loop, input() returns typed
GetUserDataInput(typed) ==
    /\ collecting
    /\ LET user_input == Strip(typed)
       IN  IF Lower(user_input) = <<"d", "o", "n", "e">>
              THEN /\ GetUserDataReturn
                   /\ UNCHANGED printed
           ELSE IF Lower(user_input) \in {<<"h", "e", "l", "p">>, <<"l", "i", "s", "t">>}
              THEN /\ printed' = IF Lower(user_input) = <<"h", "e", "l", "p">>
                                     THEN "Help" ELSE "Current Data"
                   /\ UNCHANGED <<data_type, data_list, metadata, entry_count, collecting, collects>>
           ELSE IF validate_input(user_input)
              THEN /\ Len(data_list) < MaxEntries
                   /\ data_list' = Append(data_list, Entry(user_input))
                   /\ entry_count' = entry_count + 1
                   /\ printed' = "Added"
                   /\ UNCHANGED <<data_type, metadata, collecting, collects>>
           ELSE /\ printed' = "Invalid input"
                /\ UNCHANGED <<data_type, data_list, metadata, entry_count, collecting, collects>>
    /\ UNCHANGED <<mgrVars, connVars, loadVars, guiVars>>

\* add_data.py lines 75-80: input() raises, the handler prints and breaks
GetUserDataInterrupted(exception) ==
    /\ collecting
    /\ GetUserDataReturn
    /\ printed' = exception
    /\ UNCHANGED <<mgrVars, connVars, loadVars, guiVars>>

get_user_data ==
    \/ \E typed \in Typed : GetUserDataInput(typed)
    \/ \E exception \in Interrupts : GetUserDataInterrupted(exception)

(***************************************************************************)
(* A caller that makes a collector and calls get_user_data on it, one call *)
(* after the other.                                                        *)
(***************************************************************************)
InitCollect ==
    /\ ManagerInit
    /\ ThreadsInit
    /\ csv_data = None
    /\ validation = NotRun
    /\ running = TRUE
    /\ progress_var = 0
    /\ \E type \in DataTypes : DataCollectorInit(type)

NextCollect ==
    \/ GetUserDataEnter
    \/ get_user_data

SpecCollect == InitCollect /\ [][NextCollect]_vars

(***************************************************************************)
(* Properties.                                                             *)
(***************************************************************************)
HasCounts(r) == "inserted_count" \in DOMAIN r

CallsOf(t) == {k \in DOMAIN calls : calls[k].thread = t}

\* the rows the destination wrote in a bulk insert
WrittenBy(call) == IF call.outcome = "total" THEN 0 ELSE call.len - Cardinality(call.rejected)

RECURSIVE Written(_, _)
Written(t, k) ==
    IF k = 0 THEN 0
    ELSE Written(t, k - 1) + (IF calls[k].thread = t THEN WrittenBy(calls[k]) ELSE 0)

\* the offsets of the batches of total rows cut into batches of size rows
BatchOffsets(total, size) == {o \in 0 .. total - 1 : o % size = 0}

C3_GlobalRowIndex ==
    \A t \in Threads :
        (pc[t] = "done" /\ HasCounts(result[t]))
        => {result[t].errors[j][2] :
               j \in {n \in DOMAIN result[t].errors : result[t].errors[n][1] = "Row"}}
           = UNION {{calls[k].offset + r : r \in calls[k].rejected} : k \in CallsOf(t)}

\* C4: for batch_size < 1 insert_data never returns a report with counts and
\* submits no batch.
C4_InvalidBatchSize ==
    \A t \in Threads :
        (pc[t] = "done" /\ result[t] # NotConnected /\ frame[t].batch_size < 1)
        => /\ ~HasCounts(result[t])
           /\ result[t].success = FALSE
           /\ CallsOf(t) = {}

\* C5: for an empty dataset on a connected manager (and a batch_size >= 1)
\* insert_data returns total_records = 0, inserted_count = 0,
\* error_count = 0, errors = [] and makes no bulk insert.
C5_EmptyDataset ==
    \A t \in Threads :
        (/\ pc[t] = "done"
         /\ result[t] # NotConnected
         /\ csv_data.rows = 0
         /\ frame[t].batch_size >= 1)
        => /\ result[t] = [success |-> TRUE, total_records |-> 0, inserted_count |-> 0,
                           error_count |-> 0, errors |-> <<>>]
           /\ CallsOf(t) = {}

C5_Witness ==
    /\ pc[1] = "done"
    /\ connection_status
    /\ csv_data.rows = 0
    /\ frame[1].batch_size >= 1
    /\ HasCounts(result[1])

\* the manager's destination is not open: it never got a client, its client
\* was closed, or the last create_connection ended in its exception handler
NotOpen ==
    \/ client = 0
    \/ client \in closed
    \/ \E c \in ConnThreads : cpc[c] = "failed" /\ \A u \in ConnThreads : u > c => cpc[u] = "idle"

\* C6: insert_data called while the destination is not open returns the
\* error outcome at once, submits no batch and reports no counts.
C6_NotOpenFailsAtOnce ==
    [][\A t \in Threads :
          (pc[t] = "idle" /\ pc'[t] # "idle" /\ NotOpen)
          => /\ pc'[t] = "done"
             /\ result'[t] = NotConnected
             /\ ~HasCounts(result'[t])
             /\ calls' = calls]_vars

\* insert_data was called after the only connection made was closed
C6_Witness ==
    /\ pc[1] = "done"
    /\ result[1] = NotConnected
    /\ cret[1] = TRUE
    /\ cpc[2] = "idle"
    /\ client \in closed
    /\ calls = <<>>

\* C7: at no point are two insert_data invocations in progress against the
\* same manager.
C7_OneImportAtATime ==
    Cardinality({t \in Threads : pc[t] = "loop"}) <= 1

\* C8: an import is started only for a dataset whose validation completed
\* with valid = true.
C8_ImportOnlyValidated ==
    [][\A t \in Threads :
          (pc[t] = "start" /\ pc'[t] # "start")
          => (validation # NotRun /\ validation.valid)]_vars

C10_Total ==
    validation # NotRun => ~validation.raised

\* C11: after each batch of an import the progress indicator shows
\* rows processed so far / total_records (progress_var, in percent): it moves
\* with every batch and ends at 100.
C11_ProgressAfterEachBatch ==
    \A t \in Threads :
        (pc[t] = "loop" /\ frame[t].i > 0)
        => progress_var * frame[t].total_records
              = 100 * Min(frame[t].i, frame[t].total_records)

\* ceil(n / b) for b >= 1
CeilDiv(n, b) == (n + b - 1) \div b

\* the calls of thread t, in the order the destination saw them
ThreadCalls(t) == SelectSeq(calls, LAMBDA call : call.thread = t)

\* C12: when the destination accepts every row, insert_data on n rows with
\* batch size B >= 1 has submitted ceil(n/B) batches and returns
\* inserted_count = n, error_count = 0 and errors = [].
C12_AllAccepted ==
    \A t \in Threads :
        (/\ pc[t] = "done"
         /\ HasCounts(result[t])
         /\ frame[t].batch_size >= 1
         /\ \A k \in CallsOf(t) : calls[k].outcome = "ok")
        => /\ Cardinality(CallsOf(t)) = CeilDiv(csv_data.rows, frame[t].batch_size)
           /\ result[t].inserted_count = csv_data.rows
           /\ result[t].error_count = 0
           /\ result[t].errors = <<>>

\* the scenario: 2500 rows in batches of 1000, 1000 and 500, all accepted
C12_Witness ==
    /\ pc[1] = "done"
    /\ csv_data.rows = ScenarioRows
    /\ [k \in DOMAIN ThreadCalls(1) |-> ThreadCalls(1)[k].len]
          = <<DefaultBatchSize, DefaultBatchSize, DefaultBatchSize \div 2>>
    /\ \A k \in CallsOf(1) : calls[k].outcome = "ok"
    /\ result[1].inserted_count = ScenarioRows
    /\ result[1].error_count = 0

\* C13: no step of insert_data (the connection check, a batch that was
\* accepted, partly rejected or failed, the outer exception, the return)
\* changes the manager's client, db, collection or connection_status.
C13_InsertKeepsConnection ==
    [][loadVars' # loadVars
          => UNCHANGED <<client, db, collection, connection_status>>]_vars

\* a report was returned after a partial and a total batch failure, and the
\* manager is still connected with the client it had
C13_Witness ==
    /\ pc[1] = "done"
    /\ HasCounts(result[1])
    /\ \E j, k \in CallsOf(1) : calls[j].outcome = "partial" /\ calls[k].outcome = "total"
    /\ connection_status
    /\ client # 0
    /\ client \notin closed

\* C14: validate_csv_data leaves the dataset as it was, its rows and its
\* columns, on the early return for an empty dataset, on the normal path and
\* when it raises.
C14_ValidateKeepsDataset ==
    [][validation' # validation => csv_data' = csv_data]_vars

\* a dataset with rows and with a column validate_csv_data warns about has
\* been validated and still has that column
C14_Witness ==
    /\ validation # NotRun
    /\ ~validation.raised
    /\ validation.valid
    /\ validation.warnings # <<>>
    /\ csv_data.rows > 0
    /\ \E j \in DOMAIN csv_data.columns : Incompatible(csv_data.columns[j])

\* C15: every report validate_csv_data returns has its stats block, for the
\* empty dataset too, and stats.total_rows is the number of rows of the
\* dataset.
C15_StatsPopulated ==
    (validation # NotRun /\ ~validation.raised)
    => /\ "stats" \in DOMAIN validation
       /\ validation.stats.total_rows = csv_data.rows
       /\ validation.stats.total_columns = Len(csv_data.columns)

\* the report of a dataset that is empty because it has rows but no column
C15_Witness ==
    /\ validation # NotRun
    /\ ~validation.raised
    /\ ~validation.valid
    /\ csv_data.rows > 0
    /\ validation.stats = [total_rows |-> csv_data.rows, total_columns |-> 0]

\* insert_data has returned in thread t
Returned(t) == pc[t] \in {"done", "queued", "shown", "raised"}

\* the locals of insert_data at line 143, before the first batch
StartFrame(total_records, batch_size) ==
    [total_records |-> total_records, batch_size |-> batch_size, i |-> 0,
     inserted_count |-> 0, error_count |-> 0, errors |-> <<>>]

\* one iteration of the loop run alone, on the outcome of a bulk insert
AloneBatch(f, call) ==
    [(CASE call.outcome = "ok" -> AllOk(f)
        [] call.outcome = "partial" -> PartialFailure(f, call.rejected, call.message)
        [] call.outcome = "total" -> TotalFailure(f, call.message))
     EXCEPT !.i = @ + f.batch_size]

\* the locals of an insert_data that runs alone from f and meets the outcomes
\* of the bulk inserts cs, one after the other
RECURSIVE Alone(_, _)
Alone(f, cs) == IF cs = <<>> THEN f ELSE Alone(AloneBatch(f, Head(cs)), Tail(cs))

\* C16: an insert_data invocation that interleaves with another one returns
\* the report (counts and errors) it would return when run alone on its
\* dataset with the same outcomes of its batches.
C16_NoSharedState ==
    \A t \in Threads :
        (Returned(t) /\ HasCounts(result[t]))
        => LET alone == Alone(StartFrame(frame[t].total_records, frame[t].batch_size),
                              ThreadCalls(t))
           IN  /\ ~InRange(alone.i, alone.total_records, alone.batch_size)
               /\ result[t] = Report(alone)

\* two invocations on datasets of different sizes have returned; their bulk
\* inserts interleaved, and both had errors to report
C16_Witness ==
    /\ Returned(1) /\ HasCounts(result[1])
    /\ Returned(2) /\ HasCounts(result[2])
    /\ result[1].total_records # result[2].total_records
    /\ result[1].errors # <<>>
    /\ result[2].inserted_count > 0 /\ result[2].errors # <<>>
    /\ \E j, k, l \in DOMAIN calls :
          /\ j < k /\ k < l
          /\ calls[j].thread = calls[l].thread
          /\ calls[k].thread # calls[j].thread

\* C17: for batch_size >= 1 the k-th bulk insert of an invocation (k = 1, 2,
\* ...: batch index k - 1) covers the rows [(k-1)*batch_size,
\* min(k*batch_size, total_records)); the batches of a finished invocation
\* cover every row, and there is exactly one when batch_size >= total_records > 0.
C17_BatchBoundaries ==
    \A t \in Threads :
        (pc[t] \in {"loop", "done"} /\ frame[t].batch_size >= 1)
        => LET cs == ThreadCalls(t)
               size == frame[t].batch_size
               total == frame[t].total_records
           IN  /\ \A k \in DOMAIN cs :
                     /\ cs[k].offset = (k - 1) * size
                     /\ cs[k].offset + cs[k].len = Min(k * size, total)
                     /\ cs[k].len > 0
               /\ (pc[t] = "done" /\ HasCounts(result[t]))
                     => /\ Len(cs) = CeilDiv(total, size)
                        /\ (total > 0) => cs[Len(cs)].offset + cs[Len(cs)].len = total
                        /\ (size >= total /\ total > 0) => Len(cs) = 1

\* five rows in batches of two: the batches are [0,2), [2,4) and [4,5)
C17_Witness ==
    /\ pc[1] = "done"
    /\ HasCounts(result[1])
    /\ Len(ThreadCalls(1)) = 3
    /\ ThreadCalls(1)[3].offset = 2 * frame[1].batch_size
    /\ ThreadCalls(1)[3].len < frame[1].batch_size
    /\ ThreadCalls(1)[3].offset + ThreadCalls(1)[3].len = csv_data.rows

\* the rows of the first k bulk inserts of cs together
RECURSIVE RowsIn(_, _)
RowsIn(cs, k) == IF k = 0 THEN 0 ELSE RowsIn(cs, k - 1) + cs[k].len

\* no row is part of two of the bulk inserts cs, each of them holds rows of
\* a dataset of total rows
Disjoint(cs, total) ==
    /\ \A k \in DOMAIN cs : 0 <= cs[k].offset /\ cs[k].offset + cs[k].len <= total
    /\ \A j, k \in DOMAIN cs :
          j < k => \/ cs[j].offset + cs[j].len <= cs[k].offset
                   \/ cs[k].offset + cs[k].len <= cs[j].offset

Submits(t, outcome) ==
    /\ Len(calls') = Len(calls) + 1
    /\ calls'[Len(calls')].thread = t
    /\ calls'[Len(calls')].outcome = outcome

C20_TotalFailure ==
    [][\A t \in Threads :
          Submits(t, "total")
          => LET call == calls'[Len(calls')]
                 position == Cardinality({k \in DOMAIN calls' : calls'[k].thread = t})
                 old == frame[t]
                 new == frame'[t]
             IN  /\ new.error_count = old.error_count + call.len
                 /\ new.inserted_count = old.inserted_count
                 /\ new.errors = Append(old.errors, <<"Batch", position, call.message>>)]_vars

\* the third and last batch, a short one, failed after two that were written
C20_Witness ==
    /\ pc[1] = "done"
    /\ HasCounts(result[1])
    /\ Len(calls) = 3
    /\ calls[1].outcome = "ok" /\ calls[2].outcome = "ok"
    /\ calls[3].outcome = "total" /\ calls[3].len < frame[1].batch_size
    /\ result[1].error_count = calls[3].len
    /\ result[1].errors = <<BatchError(3, calls[3].message)>>

\* the number of error entries a bulk insert gives rise to
EntriesOf(call) ==
    CASE call.outcome = "ok" -> 0
      [] call.outcome = "partial" -> Cardinality(call.rejected)
      [] call.outcome = "total" -> 1

\* for the bulk inserts cs[1 .. k], in order, the position in cs of the batch
\* each error entry comes from
RECURSIVE Sources(_, _)
Sources(cs, k) ==
    IF k = 0 THEN <<>>
    ELSE Sources(cs, k - 1) \o [j \in 1 .. EntriesOf(cs[k]) |-> k]

\* C21: the entries of the report's errors list follow dataset order: the
\* entries of the first failing batch come first, then those of the next one,
\* for any mix of partial and total batch failures (batch_size >= 1).
C21_ErrorsInDatasetOrder ==
    \A t \in Threads :
        (pc[t] = "done" /\ HasCounts(result[t]) /\ frame[t].batch_size >= 1)
        => LET cs == ThreadCalls(t)
               src == Sources(cs, Len(cs))
               errors == result[t].errors
           IN  /\ Len(errors) = Len(src)
               /\ \A k \in DOMAIN cs : \A j \in DOMAIN cs : j < k => cs[j].offset < cs[k].offset
               /\ \A n \in DOMAIN errors :
                     LET call == cs[src[n]]
                     IN  IF call.outcome = "total"
                            THEN errors[n] = <<"Batch", src[n], call.message>>
                            ELSE /\ errors[n][1] = "Row"
                                 /\ errors[n][2] \in call.rejected
                                 /\ errors[n][3] = call.message

\* the first batch failed, the second had two rows rejected, the third
\* failed: four entries, in that order
C21_Witness ==
    /\ pc[1] = "done"
    /\ HasCounts(result[1])
    /\ Len(calls) = 3
    /\ calls[1].outcome = "total"
    /\ calls[2].outcome = "partial" /\ Cardinality(calls[2].rejected) = 2
    /\ calls[3].outcome = "total"
    /\ Len(result[1].errors) = 4
    /\ result[1].errors[1][1] = "Batch"
    /\ result[1].errors[2][1] = "Row"
    /\ result[1].errors[4][1] = "Batch"

\* the positions of the warnings of validation that start with text
WarningsOf(text) == {j \in DOMAIN validation.warnings : validation.warnings[j][1] = text}

\* the positions of the columns of csv_data whose name starts with '$' or
\* contains '.'
Offending ==
    {j \in DOMAIN csv_data.columns :
        StartsWithDollar(csv_data.columns[j]) \/ ContainsDot(csv_data.columns[j])}

\* a report for a dataset with rows and columns was returned
Validated == validation # NotRun /\ ~validation.raised /\ validation.valid

\* C22: for a non-empty dataset the warnings list holds one warning for each
\* rule that holds (more than 100 columns, more than 100,000 rows,
\* incompatible column names), in that order, and nothing else; exactly 100
\* columns or exactly 100,000 rows give no warning.
C22_EveryRuleEvaluated ==
    Validated
    => LET columns == WarningsOf("Large number of columns detected (>100)")
           rows == WarningsOf("Large dataset detected (>100k rows)")
           names == WarningsOf("Columns with MongoDB-incompatible names")
       IN  /\ Cardinality(columns) = IF Len(csv_data.columns) > LargeColumns THEN 1 ELSE 0
           /\ Cardinality(rows) = IF csv_data.rows > LargeRows THEN 1 ELSE 0
           /\ Cardinality(names) = IF Offending # {} THEN 1 ELSE 0
           /\ DOMAIN validation.warnings = columns \cup rows \cup names
           /\ \A c \in columns : \A r \in rows : c < r
           /\ \A r \in rows : \A n \in names : r < n
           /\ \A c \in columns : \A n \in names : c < n

\* a dataset of 101 columns and 100,001 rows with an incompatible column name
\* has the three warnings
C22_Witness ==
    /\ Validated
    /\ Len(csv_data.columns) = LargeColumns + 1
    /\ csv_data.rows = LargeRows + 1
    /\ Len(validation.warnings) = 3
    /\ validation.warnings[3][1] = "Columns with MongoDB-incompatible names"

\* C23: the column-name warning is there iff a column name begins with '$'
\* or contains '.', and it lists those names, all of them and no other, in
\* column order.
C23_OffendingColumns ==
    Validated
    => LET names == WarningsOf("Columns with MongoDB-incompatible names")
           nth(n) == CHOOSE j \in Offending : Cardinality({i \in Offending : i <= j}) = n
       IN  /\ (names # {}) <=> (Offending # {})
           /\ \A w \in names :
                 LET listed == validation.warnings[w][2]
                 IN  /\ Len(listed) = Cardinality(Offending)
                     /\ \A n \in DOMAIN listed : listed[n] = csv_data.columns[nth(n)]

\* two columns, one that contains '.' and then one that starts with '$': the
\* warning lists both, in that order
C23_Witness ==
    /\ Validated
    /\ Len(csv_data.columns) = 2
    /\ ContainsDot(csv_data.columns[1]) /\ ~StartsWithDollar(csv_data.columns[1])
    /\ StartsWithDollar(csv_data.columns[2]) /\ ~ContainsDot(csv_data.columns[2])
    /\ \E w \in WarningsOf("Columns with MongoDB-incompatible names") :
          validation.warnings[w][2] = csv_data.columns

\* C24: whenever a create_connection call returns False, connection_status
\* is False on its return, also when the manager was connected before the
\* call.
C24_FalseMeansNotConnected ==
    [][\A c \in ConnThreads :
          (cpc[c] \notin {"unreachable", "failed"} /\ cpc'[c] \in {"unreachable", "failed"})
          => (cret'[c] = FALSE /\ connection_status' = FALSE)]_vars

\* C25: all the bulk inserts of one import go to the same collection, also
\* when a connect thread runs while the import is in progress.
C25_OneCollectionPerImport ==
    \A t \in Threads :
        \A j, k \in CallsOf(t) : calls[j].collection = calls[k].collection

\* a create_connection call is between its first and its last statement
Connecting == \E c \in ConnThreads : cpc[c] \in {"test", "client", "db", "coll", "list"}

\* C26: whenever connection_status is True and no create_connection call is
\* in progress, collection belongs to db and db belongs to client.
C26_OneConnection ==
    (connection_status /\ ~Connecting) => (db = client /\ collection = db)

\* C27: once close_connection has returned (run() calls it when the mainloop
\* ends) no further bulk insert is submitted through the manager.
C27_NoInsertAfterClose ==
    [][~running => calls' = calls]_vars

\* what update_ui of thread t shows: 'Import completed' with the counts of
\* the report, or 'Import failed' with the error
Reports(t) ==
    /\ "success" \in DOMAIN result[t]
    /\ IF result[t].success THEN HasCounts(result[t]) ELSE "error" \in DOMAIN result[t]

Unclosed ==
    {c \in ConnThreads : cpc[c] \in {"db", "coll", "list", "connected"} /\ c \notin closed}

\* C29: after any sequence of create_connection and close_connection calls
\* at most one client opened by create_connection is still unclosed: a
\* reconnect does not leave the client of the connection before it open.
C29_AtMostOneOpenClient ==
    Cardinality(Unclosed) <= 1

\* C30: after every return of get_user_data, for any inputs and any number
\* of calls on the same collector, metadata['total_entries'] is
\* len(data_list) and the ids of the entries of data_list are 1..n in
\* insertion order, so pairwise distinct.
C30_TotalEntriesAndIds ==
    (~collecting /\ collects > 0)
    => /\ metadata.total_entries = Len(data_list)
       /\ \A j \in DOMAIN data_list : data_list[j].id = j

====
